---- MODULE Spec2Model ----
(***************************************************************************)
(* aws-haproxy-config (src/main.go): a daemon that polls an SQS queue and, *)
(* for every message, re-derives the backends of a tagged EC2 group,       *)
(* rewrites the haproxy configuration file from a template and runs the    *)
(* reload script.                                                          *)
(*                                                                         *)
(* Two specifications share the module:                                    *)
(*   FilterSpec  getInstanceListFromGroup / getEC2Config applied to every  *)
(*               bounded DescribeInstances result (the pure part);         *)
(*   Spec        main's polling loop with handleMessage, one action per    *)
(*               external call (receive, validate, describe, create,       *)
(*               execute, reload, delete).                                 *)
(***************************************************************************)
EXTENDS Integers, Sequences, FiniteSets, TLC

VARIABLES
    pc,            \* position of main's single thread of control
    environ,       \* the env struct: the fields the loop reads
    resp,          \* resp.Messages of the last successful ReceiveMessage
    idx,           \* index of the range loop over resp.Messages (0: not begun)
    templateData,  \* handleMessage's templateData / getEC2Config's result
    file,          \* the file at environ.HaproxyFileDest
    fileBefore,    \* observation: the file when the current pass started
    calls,         \* observation: the calls made for message idx of resp
    acked,         \* observation: DeleteMessage requests per message of resp
    describe,      \* FilterSpec: the DescribeInstances result under test
    instances,     \* FilterSpec: what getInstanceListFromGroup returned
    ec2err,        \* error (or panic) of the last getEC2Config
    fpc            \* FilterSpec: which functions have been applied

vars == <<pc, environ, resp, idx, templateData, file, fileBefore, calls,
          acked, describe, instances, ec2err, fpc>>

loopVars == <<pc, environ, resp, idx, file, fileBefore, calls, acked>>

-----------------------------------------------------------------------------
(* Bounds of the model *)

\* instances in a DescribeInstances result, FilterSpec
MaxInstances == 2
\* instances in a DescribeInstances result, polling loop
MaxLoopInstances == 1
\* messages returned by one ReceiveMessage
MaxMessages == 2

-----------------------------------------------------------------------------
(* Values *)

\* a nil pointer / a nil error
NULL == "nil"

\* the values of AWS_EC2_GROUP_NAME tried
GroupNames == {"web", "db"}

\* ec2.InstanceStateName*: the two the code accepts and one it does not
InstanceStates == {"running", "pending", "stopped"}

Tag(k, v) == [Key |-> k, Value |-> v]

\* the tag lists an instance may carry (keys are unique per instance)
TagLists ==
    { <<Tag("group", "web")>>,
      <<Tag("group", "db"), Tag("Name", "")>>,
      <<Tag("Name", "web")>>,
      <<Tag("Name", "foo"), Tag("group", "web")>> }

InstanceIdOf(k) == "i-" \o ToString(k)
DnsOf(k) == "ip-10-0-0-" \o ToString(k)
IpOf(k) == "10.0.0." \o ToString(k)

\* <<PrivateDnsName, PrivateIpAddress>> of the k-th instance: both set, or
\* an instance without a private address (an empty name, no address)
AddressesOf(k) == { <<DnsOf(k), IpOf(k)>>, <<"", NULL>> }

\* the ec2.Instance values that can stand at position k of a listing
InstancesAt(k) ==
    { [InstanceId |-> InstanceIdOf(k),
       InstanceType |-> "m5.large",
       State |-> s,
       PrivateDnsName |-> a[1],
       PrivateIpAddress |-> a[2],
       Tags |-> t] : s \in InstanceStates, a \in AddressesOf(k), t \in TagLists }

\* listings of exactly n instances, in traversal order
RECURSIVE FlatListings(_)
FlatListings(n) ==
    IF n = 0 THEN { <<>> }
    ELSE { Append(l, i) : l \in FlatListings(n - 1), i \in InstancesAt(n) }

\* the listing cut into reservations: a new reservation starts after every
\* position of cuts
RECURSIVE Reserve(_, _, _)
Reserve(flat, cuts, k) ==
    IF k > Len(flat) THEN <<>>
    ELSE LET rest == Reserve(flat, cuts, k + 1)
         IN IF rest = <<>> \/ k \in cuts
            THEN <<[Instances |-> <<flat[k]>>]>> \o rest
            ELSE <<[Instances |-> <<flat[k]>> \o rest[1].Instances]>> \o Tail(rest)

\* ec2.DescribeInstancesOutput values with at most n instances
Outputs(n) ==
    { [Reservations |-> Reserve(flat, cuts, 1)] :
        flat \in UNION { FlatListings(m) : m \in 0..n },
        cuts \in SUBSET (1..(n - 1)) }

\* what ec2Client.DescribeInstances returns: an error or an output
DescribeResults(n) ==
    { [err |-> "RequestError", output |-> [Reservations |-> <<>>]] }
    \cup { [err |-> NULL, output |-> o] : o \in Outputs(n) }

-----------------------------------------------------------------------------
(* getInstanceListFromGroup, getEC2Config *)

\* line 179: the tag that makes an instance relevant
tagIsGroup(tag, groupName) == tag.Key = "group" /\ tag.Value = groupName

\* a filter that forgets the pending state
stateIsAcceptedRunningOnly(state) == state = "running"

\* lines 187-188: the lifecycle states that are included
stateIsAccepted(state) == state = "running" \/ state = "pending"

\* lines 178-185: the loop over instance.Tags; acc is
\* [relevant |-> instanceIsRelevant, name |-> instanceObj.name]
RECURSIVE tagLoop(_, _, _, _)
tagLoop(tags, k, groupName, acc) ==
    IF k > Len(tags) THEN acc
    ELSE tagLoop(tags, k + 1, groupName,
                 [relevant |-> IF tagIsGroup(tags[k], groupName)
                               THEN TRUE ELSE acc.relevant,
                  name |-> IF tags[k].Key = "Name"
                           THEN tags[k].Value ELSE acc.name])

\* a filter that puts each new instance in front
appendInstanceInFront(list, instanceObj) == <<instanceObj>> \o list

\* line 194: instances = append(instances, instanceObj)
appendInstance(list, instanceObj) == Append(list, instanceObj)

\* lines 171-196: the loop over reservation.Instances; acc is
\* [instances |-> the slice so far, panicked |-> a nil pointer was read]
RECURSIVE instanceLoop(_, _, _, _)
instanceLoop(insts, k, groupName, acc) ==
    IF acc.panicked \/ k > Len(insts) THEN acc
    ELSE LET instance == insts[k]
             scanned == tagLoop(instance.Tags, 1, groupName,
                                [relevant |-> FALSE, name |-> ""])
         IN IF scanned.relevant /\ stateIsAccepted(instance.State)
            THEN IF instance.PrivateDnsName = NULL
                    \/ instance.PrivateIpAddress = NULL
                 THEN \* lines 190-191 dereference a nil *string
                      [instances |-> <<>>, panicked |-> TRUE]
                 ELSE instanceLoop(insts, k + 1, groupName,
                        [acc EXCEPT !.instances =
                            appendInstance(@,
                                [instanceID |-> instance.InstanceId,
                                 instanceType |-> instance.InstanceType,
                                 name |-> scanned.name,
                                 internalDNS |-> instance.PrivateDnsName,
                                 internalIP |-> instance.PrivateIpAddress])])
            ELSE instanceLoop(insts, k + 1, groupName, acc)

\* line 170: the loop over output.Reservations
RECURSIVE reservationLoop(_, _, _, _)
reservationLoop(reservations, r, groupName, acc) ==
    IF acc.panicked \/ r > Len(reservations) THEN acc
    ELSE reservationLoop(reservations, r + 1, groupName,
            instanceLoop(reservations[r].Instances, 1, groupName, acc))

\* lines 154-200, given what DescribeInstances answered.  The result is
\* [instances, err, panicked]: panicked means the function never returned.
getInstanceListFromGroup(described, groupName) ==
    IF described.err # NULL
    THEN [instances |-> <<>>, err |-> described.err, panicked |-> FALSE]
    ELSE LET acc == reservationLoop(described.output.Reservations, 1, groupName,
                                    [instances |-> <<>>, panicked |-> FALSE])
         IN [instances |-> acc.instances, err |-> NULL, panicked |-> acc.panicked]

\* a getName that prefers the fallback to the Name tag
getNameFallbackFirst(i) ==
    IF i.instanceType \o i.instanceID # "" THEN i.instanceType \o i.instanceID
    ELSE i.name

\* a getName without the fallback
getNameTagOnly(i) == i.name

\* lines 60-65
getName(i) == IF i.name # "" THEN i.name ELSE i.instanceType \o i.instanceID

\* lines 67-70
getEndpoint(i) == i.internalIP

\* lines 105-110: one templateItem per instance, appended in order
RECURSIVE templateLoop(_, _, _)
templateLoop(internalInstances, k, templateList) ==
    IF k > Len(internalInstances) THEN templateList
    ELSE templateLoop(internalInstances, k + 1,
            Append(templateList, [Name |-> getName(internalInstances[k]),
                                  Host |-> getEndpoint(internalInstances[k])]))

\* a getEC2Config that takes an empty group for an error
getEC2ConfigEmptyIsError(described, groupName) ==
    LET got == getInstanceListFromGroup(described, groupName)
    IN IF got.panicked
       THEN [templateList |-> <<>>, err |-> NULL, panicked |-> TRUE]
       ELSE IF got.err # NULL \/ got.instances = <<>>
       THEN [templateList |-> <<>>, err |-> "no instances", panicked |-> FALSE]
       ELSE [templateList |-> templateLoop(got.instances, 1, <<>>),
             err |-> NULL, panicked |-> FALSE]

\* lines 96-114: [templateList, err, panicked]
getEC2Config(described, groupName) ==
    LET got == getInstanceListFromGroup(described, groupName)
    IN IF got.panicked
       THEN [templateList |-> <<>>, err |-> NULL, panicked |-> TRUE]
       ELSE IF got.err # NULL
       THEN [templateList |-> <<>>, err |-> got.err, panicked |-> FALSE]
       ELSE [templateList |-> templateLoop(got.instances, 1, <<>>),
             err |-> NULL, panicked |-> FALSE]

-----------------------------------------------------------------------------
(* FilterSpec: the two functions applied to every bounded input *)

NoResult == [instances |-> <<>>, err |-> NULL, panicked |-> FALSE]
NoDescribe == [err |-> NULL, output |-> [Reservations |-> <<>>]]

FilterInit ==
    /\ describe \in DescribeResults(MaxInstances)
    /\ environ \in [AwsEC2GroupName : GroupNames]
    /\ fpc = "input"
    /\ instances = NoResult
    /\ templateData = <<>>
    /\ ec2err = NULL
    /\ pc = "idle"
    /\ resp = <<>>
    /\ idx = 0
    /\ file = [exists |-> FALSE, content |-> <<>>]
    /\ fileBefore = [exists |-> FALSE, content |-> <<>>]
    /\ calls = <<>>
    /\ acked = <<>>

\* a caller applies getInstanceListFromGroup
CallGetInstanceList ==
    /\ fpc = "input"
    /\ instances' = getInstanceListFromGroup(describe, environ.AwsEC2GroupName)
    /\ fpc' = "listed"
    /\ UNCHANGED <<describe, templateData, ec2err, loopVars>>

\* a caller applies getEC2Config to the same answer
CallGetEC2Config ==
    /\ fpc = "listed"
    /\ LET got == getEC2Config(describe, environ.AwsEC2GroupName)
       IN /\ templateData' = got.templateList
          /\ ec2err' = IF got.panicked THEN "panic" ELSE got.err
    /\ fpc' = "configured"
    /\ UNCHANGED <<describe, instances, loopVars>>

FilterNext == CallGetInstanceList \/ CallGetEC2Config

FilterSpec == FilterInit /\ [][FilterNext]_vars

-----------------------------------------------------------------------------
(* Messages and validateMsg *)

Member(k, v) == [key |-> k, value |-> v]

\* msg.Body as encoding/json sees it: text that is not JSON, or a JSON value
\* of some kind; an object lists its members, each value by its kind.
\* "time" is a string holding an RFC 3339 time.
Bodies ==
    { [kind |-> "notjson", members |-> <<>>],
      [kind |-> "object", members |-> <<>>],
      [kind |-> "object", members |-> <<Member("Type", "number")>>],
      [kind |-> "object", members |-> <<Member("Type", "string"),
                                        Member("Timestamp", "time")>>] }

\* lines 38-45: the fields of snsMsg and the JSON kinds each one decodes
\* (null leaves any field as it is)
snsMsgFields ==
    [Type |-> {"string", "time", "null"},
     MessageID |-> {"string", "time", "null"},
     TopicArn |-> {"string", "time", "null"},
     Timestamp |-> {"time", "null"},
     Subject |-> {"string", "time", "null"},
     Message |-> {"string", "time", "null"}]

\* json.Unmarshal into **snsMsg: null sets the pointer to nil, an object
\* fills the fields it names and skips the others, any other value is a
\* type error
RECURSIVE decodeMembers(_, _)
decodeMembers(members, k) ==
    IF k > Len(members) THEN NULL
    ELSE IF members[k].key \in DOMAIN snsMsgFields
            /\ members[k].value \notin snsMsgFields[members[k].key]
         THEN "UnmarshalTypeError"
         ELSE decodeMembers(members, k + 1)

Unmarshal(body) ==
    CASE body.kind = "notjson" -> "SyntaxError"
      [] body.kind = "null" -> NULL
      [] body.kind = "object" -> decodeMembers(body.members, 1)
      [] OTHER -> "UnmarshalTypeError"

\* lines 85-94
validateMsg(msg) == Unmarshal(msg.Body) = NULL

Messages == [Body : Bodies]

\* resp.Messages of a successful ReceiveMessage
RECURSIVE Batches(_)
Batches(n) ==
    IF n = 0 THEN { <<>> }
    ELSE Batches(n - 1)
         \cup { Append(b, m) : b \in { x \in Batches(n - 1) : Len(x) = n - 1 },
                               m \in Messages }

-----------------------------------------------------------------------------
(* writeHaproxyConfig *)

\* haProxyTemplate.Execute's output, in the pieces it writes: the static
\* text of the template, then one block per templateItem
RECURSIVE renderItems(_, _)
renderItems(items, k) ==
    IF k > Len(items) THEN <<>>
    ELSE <<"server " \o items[k].Name \o " " \o items[k].Host>>
         \o renderItems(items, k + 1)

Render(items) == <<"static">> \o renderItems(items, 1)

NoFile == [exists |-> FALSE, content |-> <<>>]

\* an open that creates the file but does not truncate it
osCreateNoTruncate(f, err) ==
    IF err = NULL THEN [exists |-> TRUE, content |-> f.content] ELSE f

\* line 118: os.Create makes the file or truncates it; when it fails the
\* path is left as it was
osCreate(f, err) == IF err = NULL THEN [exists |-> TRUE, content |-> <<>>] ELSE f

\* line 124: Execute writes the pieces in order to the open file, from its
\* start and over what it holds; an error stops it after the first n pieces
templateExecute(f, items, n) ==
    [f EXCEPT !.content = SubSeq(Render(items), 1, n)
                          \o SubSeq(f.content, n + 1, Len(f.content))]

-----------------------------------------------------------------------------
(* handleMessage and main *)

Call(op, out) == [op |-> op, out |-> out]

Outcome(err) == IF err = NULL THEN "ok" ELSE "err"

\* a loop that gives up when ReceiveMessage fails
afterReceiveErrorFatal(err, messages) ==
    IF err # NULL THEN "exited"
    ELSE IF Len(messages) > 0 THEN "validate" ELSE "receive"

\* lines 240-249: a failed poll is followed by the next poll, a successful
\* one by its first message, or by the next poll when it brought none
afterReceive(err, messages) ==
    IF err # NULL THEN "receive"
    ELSE IF Len(messages) > 0 THEN "validate" ELSE "receive"

\* lines 136-139: an invalid message ends handleMessage
afterValidate(valid) == IF valid THEN "discover" ELSE "delete"

\* a handleMessage that drops the error of getEC2Config
afterGetEC2ConfigErrorDropped(err) == "create"

\* lines 141-144: an error of getEC2Config ends handleMessage
afterGetEC2Config(err) == IF err # NULL THEN "delete" ELSE "create"

\* lines 118-122: an error of os.Create ends writeHaproxyConfig
afterCreate(err) == IF err # NULL THEN "return" ELSE "execute"

\* a handleMessage that tries the write again after an error
afterWriteHaproxyConfigRetry(err) == IF err # NULL THEN "create" ELSE "reload"

\* a handleMessage that forgets the reload
afterWriteHaproxyConfigNoReload(err) == "delete"

\* a handleMessage that reloads whatever writeHaproxyConfig returned
afterWriteHaproxyConfigErrorDropped(err) == "reload"

\* lines 146-149: an error of writeHaproxyConfig ends handleMessage
afterWriteHaproxyConfig(err) == IF err # NULL THEN "delete" ELSE "reload"

\* a reloadHaproxy that ends the process when the script fails
afterReloadFatal(err) == IF err # NULL THEN "exited" ELSE "delete"

\* lines 76-83 and 151-152: reloadHaproxy returns nothing, handleMessage
\* returns to the loop whatever the script did
afterReload(err) == "delete"

\* a loop that asks again when DeleteMessage fails
afterDeleteMessageRetry(err) == IF err # NULL THEN "delete" ELSE "next"

\* lines 251-254: the result of DeleteMessage is not looked at
afterDeleteMessage(err) == "next"

\* a loop that polls again after the first message of a batch
afterDeleteLeavesBatch(i, messages) == "receive"

\* lines 249-255: the range loop goes to the next message, or to the next poll
afterDelete(i, messages) == IF i < Len(messages) THEN "validate" ELSE "receive"

Init ==
    /\ pc = "start"
    /\ environ \in [AwsEC2GroupName : GroupNames]
    /\ resp = <<>>
    /\ idx = 0
    /\ templateData = <<>>
    /\ ec2err = NULL
    /\ file = NoFile
    /\ fileBefore = NoFile
    /\ calls = <<>>
    /\ acked = <<>>
    /\ describe = NoDescribe
    /\ instances = NoResult
    /\ fpc = "idle"

filterVars == <<describe, instances, fpc>>

\* lines 213-238: a failure of envcfg.Unmarshal or getQueueURL is fatal
Startup ==
    /\ pc = "start"
    /\ \E err \in {NULL, "fatal"} :
        pc' = IF err # NULL THEN "exited" ELSE "receive"
    /\ UNCHANGED <<environ, resp, idx, templateData, ec2err, file, fileBefore,
                   calls, acked, filterVars>>

\* lines 240-247: ReceiveMessage fails, the loop continues with the next poll
ReceiveError ==
    /\ pc = "receive"
    /\ resp' = <<>>
    /\ idx' = 0
    /\ acked' = <<>>
    /\ calls' = <<Call("ReceiveMessage", "err")>>
    /\ pc' = afterReceive("RequestError", <<>>)
    /\ UNCHANGED <<environ, templateData, ec2err, file, fileBefore, filterVars>>

\* lines 240-249: ReceiveMessage returns zero or more messages
ReceiveOk ==
    /\ pc = "receive"
    /\ \E batch \in Batches(MaxMessages) :
        /\ resp' = batch
        /\ idx' = 0
        /\ acked' = [k \in 1..Len(batch) |-> 0]
        /\ pc' = afterReceive(NULL, batch)
    /\ calls' = <<Call("ReceiveMessage", "ok")>>
    /\ UNCHANGED <<environ, templateData, ec2err, file, fileBefore, filterVars>>

\* lines 249-250 and 134-139: the range loop takes the next message and
\* handleMessage starts on it
Validate ==
    /\ pc = "validate"
    /\ idx' = idx + 1
    /\ LET valid == validateMsg(resp[idx + 1])
       IN /\ calls' = <<Call("validateMsg", IF valid THEN "ok" ELSE "err")>>
          /\ pc' = afterValidate(valid)
    /\ templateData' = <<>>
    /\ ec2err' = NULL
    /\ fileBefore' = file
    /\ UNCHANGED <<environ, resp, file, acked, filterVars>>

\* line 141: what getEC2Config can come to for a group name, over everything
\* DescribeInstances can answer
getEC2ConfigResults ==
    [g \in GroupNames |->
        { getEC2Config(d, g) : d \in DescribeResults(MaxLoopInstances) }]

\* lines 141-144, getEC2Config having come to got
handleEC2Config(got) ==
    /\ IF got.panicked
       THEN /\ pc' = "panicked"
            /\ ec2err' = "panic"
            /\ calls' = Append(calls, Call("getEC2Config", "panic"))
            /\ UNCHANGED templateData
       ELSE /\ pc' = afterGetEC2Config(got.err)
            /\ ec2err' = got.err
            /\ calls' = Append(calls, Call("getEC2Config", Outcome(got.err)))
            /\ templateData' = got.templateList
    /\ UNCHANGED <<environ, resp, idx, file, fileBefore, acked, filterVars>>

\* lines 141-144: getEC2Config on whatever DescribeInstances answers now
Discover ==
    /\ pc = "discover"
    /\ \E got \in getEC2ConfigResults[environ.AwsEC2GroupName] :
           handleEC2Config(got)

\* lines 116-122: writeHaproxyConfig opens the destination
Create ==
    /\ pc = "create"
    /\ \E err \in {NULL, "EACCES"} :
        /\ file' = osCreate(file, err)
        /\ calls' = Append(calls, Call("Create", Outcome(err)))
        /\ pc' = IF afterCreate(err) = "return"
                 THEN afterWriteHaproxyConfig(err) ELSE "execute"
    /\ UNCHANGED <<environ, resp, idx, templateData, ec2err, fileBefore, acked,
                   filterVars>>

\* lines 124-132: the template is written out, wholly or up to a failing write
Execute ==
    /\ pc = "execute"
    /\ \E n \in 0..Len(Render(templateData)) :
        LET err == IF n < Len(Render(templateData)) THEN "ENOSPC" ELSE NULL
        IN /\ file' = templateExecute(file, templateData, n)
           /\ calls' = Append(calls, Call("Execute", Outcome(err)))
           /\ pc' = afterWriteHaproxyConfig(err)
    /\ UNCHANGED <<environ, resp, idx, templateData, ec2err, fileBefore, acked,
                   filterVars>>

\* lines 151 and 72-83: the reload script runs to its end
Reload ==
    /\ pc = "reload"
    /\ \E err \in {NULL, "exit status 1"} :
        /\ calls' = Append(calls, Call("reloadHaproxy", Outcome(err)))
        /\ pc' = afterReload(err)
    /\ UNCHANGED <<environ, resp, idx, templateData, ec2err, file, fileBefore,
                   acked, filterVars>>

\* lines 251-255: DeleteMessage, its result dropped
Delete ==
    /\ pc = "delete"
    /\ \E err \in {NULL, "RequestError"} :
        /\ calls' = Append(calls, Call("DeleteMessage", Outcome(err)))
        /\ pc' = IF afterDeleteMessage(err) = "next"
                 THEN afterDelete(idx, resp) ELSE afterDeleteMessage(err)
    /\ acked' = [acked EXCEPT ![idx] = @ + 1]
    /\ UNCHANGED <<environ, resp, idx, templateData, ec2err, file, fileBefore,
                   filterVars>>

Next ==
    \/ Startup
    \/ ReceiveError
    \/ ReceiveOk
    \/ Validate
    \/ Discover
    \/ Create
    \/ Execute
    \/ Reload
    \/ Delete

Spec == Init /\ [][Next]_vars

\* every external call returns and the one thread keeps running
FairSpec == Spec /\ WF_vars(Next)

-----------------------------------------------------------------------------
(* SnapshotSpec: two deliveries handled against one unchanged inventory *)

\* the well-formed notification
Notification ==
    [Body |-> [kind |-> "object",
               members |-> <<Member("Type", "string"),
                             Member("Timestamp", "time")>>]]

\* a configuration left by a pass over an earlier inventory
StaleFile ==
    [exists |-> TRUE,
     content |-> Render(<<[Name |-> "old-a", Host |-> "10.0.9.1"],
                          [Name |-> "old-b", Host |-> "10.0.9.2"]>>)]

\* the loop has just received two notifications; DescribeInstances will
\* answer describe for both
SnapshotInit ==
    /\ pc = "validate"
    /\ environ \in [AwsEC2GroupName : GroupNames]
    /\ describe \in DescribeResults(MaxLoopInstances)
    /\ resp = <<Notification, Notification>>
    /\ idx = 0
    /\ acked = <<0, 0>>
    /\ calls = <<Call("ReceiveMessage", "ok")>>
    /\ file \in {NoFile, StaleFile}
    /\ fileBefore = NoFile
    /\ templateData = <<>>
    /\ ec2err = NULL
    /\ instances = NoResult
    /\ fpc = "idle"

\* lines 141-144: getEC2Config, DescribeInstances answering describe
DiscoverSnapshot ==
    /\ pc = "discover"
    /\ handleEC2Config(getEC2Config(describe, environ.AwsEC2GroupName))

SnapshotNext ==
    \/ Validate
    \/ DiscoverSnapshot
    \/ Create
    \/ Execute
    \/ Reload
    \/ Delete

SnapshotSpec == SnapshotInit /\ [][SnapshotNext]_vars

-----------------------------------------------------------------------------
(* Properties of getInstanceListFromGroup and getEC2Config (FilterSpec) *)

\* the instances of the answer under test, in traversal order: reservations
\* in listing order, instances in listing order within each
RECURSIVE Traversal(_)
Traversal(reservations) ==
    IF reservations = <<>> THEN <<>>
    ELSE Head(reservations).Instances \o Traversal(Tail(reservations))

Described == Traversal(describe.output.Reservations)

CarriesGroupTag(i, groupTag) ==
    \E t \in DOMAIN i.Tags : i.Tags[t].Key = "group" /\ i.Tags[t].Value = groupTag

Eligible(i) ==
    /\ CarriesGroupTag(i, environ.AwsEC2GroupName)
    /\ i.State \in {"running", "pending"}

Returned(id) ==
    \E k \in DOMAIN instances.instances : instances.instances[k].instanceID = id

\* getInstanceListFromGroup came back with a Backend Set (no error, no panic)
ReturnedBackendSet == fpc # "input" /\ instances.err = NULL /\ ~instances.panicked

\* C1: an instance is in the returned Backend Set iff it carries a tag
\* group = groupTag and its state is running or pending; an instance in
\* another state, or with a wrong or absent group tag, is never in a result.
C1_BackendSetIffEligible ==
    /\ \A k \in DOMAIN instances.instances :
          \E d \in DOMAIN Described :
             /\ Described[d].InstanceId = instances.instances[k].instanceID
             /\ Eligible(Described[d])
    /\ ReturnedBackendSet =>
          \A d \in DOMAIN Described :
             Returned(Described[d].InstanceId) <=> Eligible(Described[d])

\* a pending instance of the group is returned while an instance of the
\* group that is stopped, listed with it, is left out
C1_Witness ==
    /\ ReturnedBackendSet
    /\ Len(instances.instances) = 1
    /\ \E a, b \in DOMAIN Described :
          /\ Described[a].State = "pending" /\ Eligible(Described[a])
          /\ Returned(Described[a].InstanceId)
          /\ Described[b].State = "stopped"
          /\ CarriesGroupTag(Described[b], environ.AwsEC2GroupName)
          /\ ~Returned(Described[b].InstanceId)

NoPrivateAddress(i) == i.PrivateIpAddress = NULL

\* C5: when an eligible instance has no private address,
\* getInstanceListFromGroup returns an error to its caller.
C5_NoAddressReturnsError ==
    (fpc # "input" /\ \E d \in DOMAIN Described :
                         Eligible(Described[d]) /\ NoPrivateAddress(Described[d]))
    => (instances.err # NULL /\ ~instances.panicked)

\* position of an instance id in the traversal (0: not listed)
PositionOf(id, listing) ==
    IF \E d \in DOMAIN listing : listing[d].InstanceId = id
    THEN CHOOSE d \in DOMAIN listing : listing[d].InstanceId = id
    ELSE 0

Permute(listing, p) == [k \in DOMAIN listing |-> listing[p[k]]]

ReturnedIds(got) == [k \in DOMAIN got.instances |-> got.instances[k].instanceID]

\* the ids of a listing that are in ids, in the order of the listing
RECURSIVE KeepListed(_, _)
KeepListed(listing, ids) ==
    IF listing = <<>> THEN <<>>
    ELSE (IF Head(listing).InstanceId \in ids
          THEN <<Head(listing).InstanceId>> ELSE <<>>)
         \o KeepListed(Tail(listing), ids)

Range(f) == { f[x] : x \in DOMAIN f }

\* C9: the Backend Set and the template items keep the traversal order:
\* of two included instances the one met first comes first, the k-th
\* template item is made from the k-th instance, and listing the same
\* instances in another order reorders the result the same way.
C9_OrderPreserved ==
    /\ ReturnedBackendSet =>
          /\ \A a, b \in DOMAIN instances.instances :
                a < b => PositionOf(instances.instances[a].instanceID, Described)
                         < PositionOf(instances.instances[b].instanceID, Described)
          /\ \A p \in Permutations(DOMAIN Described) :
                LET reordered == Permute(Described, p)
                    got == getInstanceListFromGroup(
                              [err |-> NULL,
                               output |-> [Reservations |->
                                              <<[Instances |-> reordered]>>]],
                              environ.AwsEC2GroupName)
                IN /\ ~got.panicked
                   /\ ReturnedIds(got)
                        = KeepListed(reordered, Range(ReturnedIds(instances)))
    /\ (fpc = "configured" /\ ec2err = NULL) =>
          /\ Len(templateData) = Len(instances.instances)
          /\ \A k \in DOMAIN templateData :
                templateData[k].Host = instances.instances[k].internalIP

\* two instances in two reservations are both included and both rendered
C9_Witness ==
    /\ fpc = "configured"
    /\ ec2err = NULL
    /\ Len(describe.output.Reservations) = 2
    /\ Len(templateData) = 2
    /\ templateData[1].Host # templateData[2].Host

-----------------------------------------------------------------------------
(* Properties of handleMessage and the polling loop (Spec) *)

Made(op) == \E k \in DOMAIN calls : calls[k].op = op

MadeWith(op, out) == \E k \in DOMAIN calls : calls[k] = Call(op, out)

\* the publish step of the pass for message idx reported an error
PublishFailed == MadeWith("Create", "err") \/ MadeWith("Execute", "err")

\* the destination holds the whole text rendered in this pass
FullyWritten == file.exists /\ file.content = Render(templateData)

\* C2: the reload script is only invoked after a publish that succeeded in
\* the same pass; after a failed create or write it is not invoked.
C2_ReloadOnlyAfterPublish ==
    /\ (pc = "reload" \/ Made("reloadHaproxy")) =>
          /\ MadeWith("Create", "ok")
          /\ MadeWith("Execute", "ok")
          /\ FullyWritten
    /\ PublishFailed => (pc # "reload" /\ ~Made("reloadHaproxy"))

\* a pass whose write failed has ended with the delete request
C2_Witness ==
    /\ MadeWith("Execute", "err")
    /\ Made("DeleteMessage")
    /\ pc = "receive"

\* C3: whenever the publish step reported an error the destination file is
\* as it was before the pass or holds the complete new text.
C3_FailedPublishLeavesOldOrNew ==
    PublishFailed => (file = fileBefore \/ FullyWritten)

\* the body is a JSON object with a member Type
HasTypeField(body) ==
    /\ body.kind = "object"
    /\ \E m \in DOMAIN body.members : body.members[m].key = "Type"

\* C4: handling a message whose body is not JSON or has no Type field
\* invokes neither the inventory query nor the publish nor the reload.
C4_InvalidMessageSkipped ==
    (idx > 0 /\ ~HasTypeField(resp[idx].Body)) =>
        /\ ~Made("getEC2Config")
        /\ ~Made("Create")
        /\ ~Made("Execute")
        /\ ~Made("reloadHaproxy")
        /\ pc \notin {"discover", "create", "execute", "reload"}

\* the pass for message k of resp is between its start and its return
PassRunning(k) ==
    k = idx /\ pc \in {"discover", "create", "execute", "reload"}

\* the loop is through with resp: it polls again, or the process has ended
LeftBatch == pc \in {"receive", "panicked", "exited"}

\* C6: every message of a successful poll gets exactly one delete request,
\* issued only after its pass has finished, whatever the pass did.
C6_OneDeletePerMessage ==
    \A k \in DOMAIN resp :
        /\ acked[k] <= 1
        /\ acked[k] = 1 => (k <= idx /\ ~PassRunning(k))
        /\ LeftBatch => acked[k] = 1

\* C7: after a failed reload the loop does not exit: the message is deleted
\* next, and after that the next message of the batch, or the next poll,
\* is taken up.
C7_ReloadFailureNotFatal ==
    MadeWith("reloadHaproxy", "err") =>
        \/ /\ pc = "delete"
           /\ acked[idx] = 0
           /\ ENABLED Delete
        \/ /\ Made("DeleteMessage")
           /\ acked[idx] = 1
           /\ pc = (IF idx < Len(resp) THEN "validate" ELSE "receive")
           /\ IF idx < Len(resp) THEN ENABLED Validate ELSE ENABLED ReceiveOk

\* the first message's reload failed, it was deleted, and the second
\* message of the batch is in hand
C7_Witness ==
    /\ MadeWith("reloadHaproxy", "err")
    /\ Made("DeleteMessage")
    /\ idx = 1
    /\ Len(resp) = 2
    /\ pc = "validate"

\* C8: once startup has succeeded the daemon never terminates: whatever
\* failed, the loop has a next step to take.
C8_RuntimeErrorsNotFatal ==
    pc \notin {"start", "exited"} => (pc # "panicked" /\ ENABLED Next)

\* C10: when the inventory query fails the pass ends there: the destination
\* file is not created, truncated or written and the reload is not invoked.
C10_QueryFailureEndsPass ==
    MadeWith("getEC2Config", "err") =>
        /\ ~Made("Create")
        /\ ~Made("Execute")
        /\ ~Made("reloadHaproxy")
        /\ file = fileBefore
        /\ pc \in {"delete", "validate", "receive"}

\* a pass whose query failed has ended and an earlier configuration with a
\* backend is still in place
C10_Witness ==
    /\ MadeWith("getEC2Config", "err")
    /\ Made("DeleteMessage")
    /\ file.exists
    /\ Len(file.content) = 2

-----------------------------------------------------------------------------
(* Display names (FilterSpec) *)

HasNameTag(i) == \E t \in DOMAIN i.Tags : i.Tags[t].Key = "Name"

NameTagValue(i) == i.Tags[CHOOSE t \in DOMAIN i.Tags : i.Tags[t].Key = "Name"].Value

\* the listed instance the k-th returned instance was made from
SourceOf(k) ==
    Described[PositionOf(instances.instances[k].instanceID, Described)]

\* getEC2Config came back with template items
Configured == fpc = "configured" /\ ec2err = NULL

\* C11 as stated: the display name is the value of the Name tag when the
\* instance has one, and instanceType+instanceId otherwise.
C11_NameTagAlwaysWins ==
    Configured =>
        \A k \in DOMAIN templateData :
            templateData[k].Name =
                IF HasNameTag(SourceOf(k)) THEN NameTagValue(SourceOf(k))
                ELSE SourceOf(k).InstanceType \o SourceOf(k).InstanceId

\* C11 amended: the display name is the value of the Name tag when the
\* instance has one that is not empty, and instanceType+instanceId (no
\* separator) otherwise.
C11_NonEmptyNameTagWins ==
    Configured =>
        \A k \in DOMAIN templateData :
            templateData[k].Name =
                IF HasNameTag(SourceOf(k)) /\ NameTagValue(SourceOf(k)) # ""
                THEN NameTagValue(SourceOf(k))
                ELSE SourceOf(k).InstanceType \o SourceOf(k).InstanceId

\* one endpoint named by its tag next to one named by type and id
C11_Witness ==
    /\ Configured
    /\ Len(templateData) = 2
    /\ templateData[1].Name = "foo"
    /\ ~HasNameTag(SourceOf(2))
    /\ templateData[2].Name = "m5.largei-2"

\* C14: every endpoint handed to the renderer has a non-empty display name.
C14_DisplayNameNonEmpty ==
    \A k \in DOMAIN templateData : templateData[k].Name # ""

\* an endpoint whose Name tag is empty is rendered under type and id
C14_Witness ==
    /\ Configured
    /\ \E k \in DOMAIN templateData :
          /\ HasNameTag(SourceOf(k))
          /\ NameTagValue(SourceOf(k)) = ""
          /\ templateData[k].Name = "m5.large" \o SourceOf(k).InstanceId

-----------------------------------------------------------------------------
(* Order of the loop's steps (Spec) *)

\* the last poll failed and nothing has happened since
ReceiveFailed == calls = <<Call("ReceiveMessage", "err")>>

\* C13: after a poll that returned an error the loop runs no pass and issues
\* no delete request for that poll; its next action is another poll, it has
\* not ended.
C13_ReceiveErrorPollsAgain ==
    ReceiveFailed =>
        /\ pc = "receive"
        /\ resp = <<>>
        /\ idx = 0
        /\ acked = <<>>
        /\ ENABLED ReceiveOk
        /\ ENABLED ReceiveError
        /\ ~ENABLED Validate
        /\ ~ENABLED Delete

\* a poll fails after a pass has published a configuration
C13_Witness ==
    /\ ReceiveFailed
    /\ file.exists
    /\ Len(file.content) = 2

\* a pass is between the start of handleMessage and the delete request
InPass == pc \in {"discover", "create", "execute", "reload", "delete"}

Last(s) == s[Len(s)]

\* C15: passes do not overlap and follow the order of the batch: the
\* messages before idx have had their delete request, those after it have
\* not been touched, the next message or the next poll is taken up only
\* after the delete request of the current one, which follows its reload.
C15_OnePassAtATime ==
    /\ \A k \in DOMAIN resp :
          /\ k < idx => acked[k] = 1
          /\ k > idx => acked[k] = 0
    /\ InPass => (idx \in DOMAIN resp /\ acked[idx] = 0)
    /\ (pc = "validate" /\ idx > 0) =>
          (acked[idx] = 1 /\ Last(calls).op = "DeleteMessage")
    /\ pc = "receive" =>
          /\ idx = Len(resp)
          /\ idx > 0 => (acked[idx] = 1 /\ Last(calls).op = "DeleteMessage")
    /\ \A a, b \in DOMAIN calls :
          (calls[a].op = "DeleteMessage" /\ calls[b].op = "reloadHaproxy") => b < a

\* the second message of a batch is in hand after the first one was
\* reloaded and deleted
C15_Witness ==
    /\ pc = "discover"
    /\ idx = 2
    /\ acked = <<1, 0>>

\* the place of a call in a pass
Rank(op) ==
    CASE op = "validateMsg" -> 1
      [] op = "getEC2Config" -> 2
      [] op = "Create" -> 3
      [] op = "Execute" -> 4
      [] op = "reloadHaproxy" -> 5
      [] op = "DeleteMessage" -> 6
      [] OTHER -> 0

\* C16: within a pass nothing is retried: validate, query, create, write and
\* reload happen at most once each, in that order, none is skipped, and a
\* step runs only if every step before it succeeded.
C16_NoRetryInPass ==
    /\ \A a, b \in DOMAIN calls :
          a < b => /\ Rank(calls[a].op) < Rank(calls[b].op)
                   /\ calls[b].op # "DeleteMessage" => calls[a].out = "ok"
    /\ \A a \in DOMAIN calls :
          calls[a].op \notin {"DeleteMessage", "ReceiveMessage"}
             => Rank(calls[a].op) = a

\* a pass went through all four steps and was deleted
C16_Witness ==
    /\ Len(calls) = 6
    /\ calls[5] = Call("reloadHaproxy", "ok")
    /\ calls[6].op = "DeleteMessage"

\* the pass for message idx is over
PassOver == idx > 0 /\ Made("DeleteMessage")

\* validation and discovery of the pass succeeded
Discovered == MadeWith("validateMsg", "ok") /\ MadeWith("getEC2Config", "ok")

\* C17 as stated: every pass whose validation and discovery succeed
\* rewrites the destination file and then invokes the reload script.
C17_AlwaysRewritesAndReloads ==
    (PassOver /\ Discovered) =>
        /\ MadeWith("Create", "ok")
        /\ MadeWith("Execute", "ok")
        /\ FullyWritten
        /\ Made("reloadHaproxy")

\* C17 amended: every pass whose validation and discovery succeed opens the
\* destination for rewriting, whatever it held, and, unless the create or
\* the write fails, rewrites it and then invokes the reload script.
C17_NoDiffing ==
    /\ (Discovered /\ pc # "create") => Made("Create")
    /\ (Discovered /\ MadeWith("Create", "ok") /\ pc # "execute")
          => Made("Execute")
    /\ (Discovered /\ MadeWith("Execute", "ok") /\ pc # "reload")
          => Made("reloadHaproxy")
    /\ (PassOver /\ Discovered /\ ~PublishFailed) =>
          /\ FullyWritten
          /\ Made("reloadHaproxy")

\* a pass rewrote and reloaded a configuration equal to the one in place
C17_Witness ==
    /\ PassOver
    /\ Discovered
    /\ fileBefore.exists
    /\ Len(fileBefore.content) = 2
    /\ fileBefore.content = Render(templateData)
    /\ MadeWith("Create", "ok")
    /\ MadeWith("Execute", "ok")
    /\ Made("reloadHaproxy")

\* the delete request for message idx failed
DeleteFailed == idx > 0 /\ MadeWith("DeleteMessage", "err")

\* C19: a failed delete is neither fatal nor retried: one request was made,
\* the loop is at the next message or the next poll and can go on; a message
\* delivered again gets a pass of its own, from validation on, and a delete
\* request of its own.
C19_DeleteResultIgnored ==
    /\ DeleteFailed =>
          /\ acked[idx] = 1
          /\ Last(calls) = Call("DeleteMessage", "err")
          /\ pc = (IF idx < Len(resp) THEN "validate" ELSE "receive")
          /\ IF idx < Len(resp) THEN ENABLED Validate ELSE ENABLED ReceiveOk
    /\ (idx > 1 /\ resp[idx] = resp[idx - 1]) =>
          /\ acked[idx - 1] = 1
          /\ calls[1].op = "validateMsg"
          /\ (MadeWith("validateMsg", "ok") /\ pc # "discover")
                => Made("getEC2Config")
          /\ pc \in {"validate", "receive"} =>
                (Last(calls).op = "DeleteMessage" /\ acked[idx] = 1)

\* the delete request of a reloaded message failed and the loop stands at
\* the next message of the batch, the same message delivered again
C19_Witness ==
    /\ DeleteFailed
    /\ Made("reloadHaproxy")
    /\ idx = 1
    /\ Len(resp) = 2
    /\ resp[2] = resp[1]
    /\ pc = "validate"

-----------------------------------------------------------------------------
(* What a pass publishes (SnapshotSpec) *)

\* the display name the data model gives an instance
DisplayName(i) ==
    IF HasNameTag(i) /\ NameTagValue(i) # "" THEN NameTagValue(i)
    ELSE i.InstanceType \o i.InstanceId

\* the Backend Set of a listing: its eligible instances in traversal order
RECURSIVE BackendItems(_)
BackendItems(listing) ==
    IF listing = <<>> THEN <<>>
    ELSE (IF Eligible(Head(listing))
          THEN <<[Name |-> DisplayName(Head(listing)),
                  Host |-> Head(listing).PrivateIpAddress]>>
          ELSE <<>>)
         \o BackendItems(Tail(listing))

\* the pass for message idx wrote the whole template out
Published == idx > 0 /\ MadeWith("Execute", "ok")

\* C12: what a pass publishes is determined by the inventory snapshot and
\* the group tag alone, whatever the file held and whatever was published
\* before: two passes over an unchanged inventory leave the same content.
C12_PublishedFromSnapshotOnly ==
    Published =>
        /\ file = [exists |-> TRUE,
                   content |-> Render(BackendItems(Described))]
        /\ (idx = 2 /\ fileBefore.exists
              /\ fileBefore.content = Render(BackendItems(Described)))
             => file = fileBefore

\* the second pass has published, over the configuration the first pass
\* published, the same one-backend configuration
C12_Witness ==
    /\ Published
    /\ idx = 2
    /\ Len(file.content) = 2
    /\ file = fileBefore

\* DescribeInstances answers a listing without any eligible instance
NoneEligible ==
    /\ describe.err = NULL
    /\ \A d \in DOMAIN Described : ~Eligible(Described[d])

\* C18 as stated: with an empty Backend Set a configuration with zero
\* backend entries is published and the reload script is invoked.
C18_EmptySetPublishedAndReloaded ==
    (PassOver /\ NoneEligible) =>
        /\ file = [exists |-> TRUE, content |-> Render(<<>>)]
        /\ Made("reloadHaproxy")

\* C18 amended: with an empty Backend Set the pass is not aborted: the
\* query counts as a success, the destination is opened for rewriting and,
\* unless the create or the write fails, a configuration with zero backend
\* entries replaces what the file held and the reload script is invoked.
C18_EmptySetNotAborted ==
    (NoneEligible /\ Made("getEC2Config")) =>
        /\ MadeWith("getEC2Config", "ok")
        /\ templateData = <<>>
        /\ pc # "create" => Made("Create")
        /\ (PassOver /\ ~PublishFailed) =>
              /\ file = [exists |-> TRUE, content |-> Render(<<>>)]
              /\ Made("reloadHaproxy")

\* instances are listed, none is eligible, and the configuration without
\* backends has replaced one with backends and has been reloaded
C18_Witness ==
    /\ PassOver
    /\ NoneEligible
    /\ Len(Described) > 0
    /\ fileBefore = StaleFile
    /\ file = [exists |-> TRUE, content |-> Render(<<>>)]
    /\ Made("reloadHaproxy")

====
